---------------------------- MODULE Spec2Model ----------------------------
(***************************************************************************)
(* A model of tetris.ts: the piece catalog, Point/Piece/Bag, the kick      *)
(* table, spawn, clearLines, movePieceDown, the keydown handler and the    *)
(* interval timer of init().                                               *)
(*                                                                         *)
(* Numbers.  The program's coordinates are JavaScript numbers that are     *)
(* integers or half-integers (the centroid of the I and O kinds is         *)
(* (0.5, 1.5) and (0.5, 0.5)).  Every coordinate of the model is stored as *)
(* the number of HALVES it holds: the model's 3 is the program's 1.5, the  *)
(* model's 2 is the program's 1.  A coordinate is an integer of the        *)
(* program exactly when its model value is even.  Num(n) is the model      *)
(* value of the program's integer n, Cell(v) the program's integer of an   *)
(* even model value.                                                       *)
(***************************************************************************)
EXTENDS Integers, Sequences, FiniteSets, TLC

\* ------------------------------------------------------------------ bounds
\* The playfield of the model (the program's is 10 x 20).
GRID_WIDTH == 4
GRID_HEIGHT == 5
\* Math.random() is drawn from { k / RandomLevels : k \in 0 .. RandomLevels-1 }.
RandomLevels == 2
\* spawn() is called at most MaxSpawns times in a behaviour of Spec.
MaxSpawns == 2
\* Piece.place() is called at most MaxLocks times in a behaviour of Spec.
MaxLocks == 2

\* ------------------------------------------------------- program constants
NUM_BLOCKS == 4
MAX_KICK == 3

Num(n) == 2 * n
Cell(v) == v \div 2
isInt(v) == v % 2 = 0

\* ------------------------------------------------------------------- Point
Point(x, y) == [x |-> x, y |-> y]

POINT_ZERO == Point(Num(0), Num(0))

\* A mutant of PointRotate: the two coordinates are assigned one after the
\* other, so the new y is computed from the new x.
PointRotateSequential(pt, ccw, center) ==
  LET xFactor == IF ccw THEN -1 ELSE 1
      yFactor == IF ccw THEN 1 ELSE -1
      newX == center.x + xFactor * (pt.y - center.y)
  IN  Point(newX, center.y + yFactor * (newX - center.x))

\* Point.rotate(ccw, center): the new value of the point.
PointRotate(pt, ccw, center) ==
  LET xFactor == IF ccw THEN -1 ELSE 1
      yFactor == IF ccw THEN 1 ELSE -1
  IN  Point(center.x + xFactor * (pt.y - center.y),
            center.y + yFactor * (pt.x - center.x))

\* ----------------------------------------------------------------- catalog
\* PIECE_STRINGS, one character per element.
PIECE_STRINGS ==
  << \* I
     << "#", " ", " ", " ",
        "O", ":", " ", " ",
        "O", ":", " ", " ",
        "#", " ", " ", " " >>,
     \* J
     << " ", "#", " ", " ",
        " ", "O", " ", " ",
        "#", "#", " ", " ",
        " ", " ", " ", " " >>,
     \* L
     << "#", " ", " ", " ",
        "O", " ", " ", " ",
        "#", "#", " ", " ",
        " ", " ", " ", " " >>,
     \* O
     << "O", "O", " ", " ",
        "O", "O", " ", " ",
        " ", " ", " ", " ",
        " ", " ", " ", " " >>,
     \* S
     << " ", "#", "#", " ",
        "#", "O", " ", " ",
        " ", " ", " ", " ",
        " ", " ", " ", " " >>,
     \* Z
     << "#", "#", " ", " ",
        " ", "O", "#", " ",
        " ", " ", " ", " ",
        " ", " ", " ", " " >>,
     \* T
     << "#", "O", "#", " ",
        " ", "#", " ", " ",
        " ", " ", " ", " ",
        " ", " ", " ", " " >> >>

\* new Piece(blocks, centroid, index, position): the object, or the message
\* of the assertion that fails.  (isInt(centroid * 2) is decided where the
\* centroid is computed: the model cannot hold a value that is no multiple
\* of 1/2.)
Piece(blocks, centroid, index, position) ==
  IF Len(blocks) # NUM_BLOCKS THEN "piece must have 4 blocks"
  ELSE IF index <= 0 THEN "index should be greater than 0"
  ELSE [blocks |-> blocks, centroid |-> centroid, index |-> index,
        position |-> position]

\* A mutant of scanString: only the 'O' cells count for the centroid, the
\* ':' cells do not.
RECURSIVE scanStringBlocksOnly(_, _, _)
scanStringBlocksOnly(str, i, acc) ==
  IF i >= NUM_BLOCKS * NUM_BLOCKS THEN acc
  ELSE LET c == str[i + 1]
           x == i % NUM_BLOCKS
           y == i \div NUM_BLOCKS
           withBlock == IF c = "#" \/ c = "O"
                        THEN Append(acc.blocks, Point(Num(x), Num(y)))
                        ELSE acc.blocks
           isCentroid == c = "O"
       IN  scanStringBlocksOnly(str, i + 1,
             [blocks |-> withBlock,
              cx |-> IF isCentroid THEN acc.cx + x ELSE acc.cx,
              cy |-> IF isCentroid THEN acc.cy + y ELSE acc.cy,
              centroid_count |-> IF isCentroid THEN acc.centroid_count + 1
                                 ELSE acc.centroid_count])

\* The loop of pieceFromString over i = from .. 15 (0-based), with the
\* blocks and the centroid sums collected so far.
RECURSIVE scanString(_, _, _)
scanString(str, i, acc) ==
  IF i >= NUM_BLOCKS * NUM_BLOCKS THEN acc
  ELSE LET c == str[i + 1]
           x == i % NUM_BLOCKS
           y == i \div NUM_BLOCKS
           withBlock == IF c = "#" \/ c = "O"
                        THEN Append(acc.blocks, Point(Num(x), Num(y)))
                        ELSE acc.blocks
           isCentroid == c = "O" \/ c = ":"
       IN  scanString(str, i + 1,
             [blocks |-> withBlock,
              cx |-> IF isCentroid THEN acc.cx + x ELSE acc.cx,
              cy |-> IF isCentroid THEN acc.cy + y ELSE acc.cy,
              centroid_count |-> IF isCentroid THEN acc.centroid_count + 1
                                 ELSE acc.centroid_count])

\* pieceFromString(str, index): the piece, or the message of the failed
\* assertion.  centroid[0] / centroid_count is held in halves: 2 * sum /
\* count, which is a whole number of halves exactly when the Piece
\* constructor's 'multiple of 1/2' assertion passes.
pieceFromString(str, index) ==
  IF Len(str) # NUM_BLOCKS * NUM_BLOCKS THEN "piece string should have length 16"
  ELSE LET r == scanString(str, 0,
                  [blocks |-> << >>, cx |-> 0, cy |-> 0, centroid_count |-> 0])
       IN  IF Len(r.blocks) # NUM_BLOCKS
             THEN "piece string should have 4 blocks"
           ELSE IF r.centroid_count <= 0
             THEN "piece string should have at least one centroid"
           ELSE IF (2 * r.cx) % r.centroid_count # 0
                   \/ (2 * r.cy) % r.centroid_count # 0
             THEN "centroid should be a multiple of 1/2"
           ELSE Piece(r.blocks,
                      Point((2 * r.cx) \div r.centroid_count,
                            (2 * r.cy) \div r.centroid_count),
                      index, POINT_ZERO)

PIECES == [i \in 1 .. Len(PIECE_STRINGS) |-> pieceFromString(PIECE_STRINGS[i], i)]

\* Piece.clone() (and Point.clone()): a value of the model is its own copy.
clone(piece) ==
  Piece([i \in 1 .. Len(piece.blocks) |-> Point(piece.blocks[i].x, piece.blocks[i].y)],
        Point(piece.centroid.x, piece.centroid.y),
        piece.index,
        Point(piece.position.x, piece.position.y))


\* -------------------------------------------------------------------- grid
\* The grid the program builds at start-up: GRID_HEIGHT rows of GRID_WIDTH 0s.
EmptyRow == [x \in 1 .. GRID_WIDTH |-> 0]
EmptyGrid == [y \in 1 .. GRID_HEIGHT |-> EmptyRow]

\* grid[py][px] !== 0 of the program, for coordinates held in halves: the
\* cell is settled, or px is no index of the row (undefined !== 0).
notZeroAt(g, px, py) ==
  IF isInt(py) /\ Cell(py) >= 0 /\ Cell(py) < Len(g)
     /\ isInt(px) /\ Cell(px) >= 0 /\ Cell(px) < Len(g[Cell(py) + 1])
  THEN g[Cell(py) + 1][Cell(px) + 1] # 0
  ELSE TRUE

\* F of the value of v: v is worked out once, before F is applied to it.
WithValue(v, F(_)) == CHOOSE r \in { F(x) : x \in { v } } : TRUE

\* ------------------------------------------------------------------- Piece
\* The loop of Piece.place from block i on.  grid[row] of a row that is no
\* index of the array is undefined, and the assignment into it throws a
\* TypeError: the cells written before it stay written.  (A column outside
\* the row would be set as a property of the row; the pieces of the program
\* never hold one, their columns having passed fitsAt.)
RECURSIVE placeFrom(_, _, _)
placeFrom(piece, g, i) ==
  IF i > Len(piece.blocks) THEN [grid |-> g, threw |-> ""]
  ELSE LET pt == piece.blocks[i]
           py == pt.y + piece.position.y
           px == pt.x + piece.position.x
       IN  IF ~(isInt(py) /\ Cell(py) >= 0 /\ Cell(py) < Len(g))
           THEN [grid |-> g, threw |-> "TypeError"]
           ELSE IF ~(isInt(px) /\ Cell(px) >= 0 /\ Cell(px) < Len(g[Cell(py) + 1]))
           THEN placeFrom(piece, g, i + 1)
           ELSE placeFrom(piece,
                          [g EXCEPT ![Cell(py) + 1][Cell(px) + 1] = piece.index],
                          i + 1)

\* Piece.place(): the grid after it, and what it threw ("" when nothing).
place(piece, g) == placeFrom(piece, g, 1)

\* Piece.rotate(ccw): every block turned about the centroid, in place.
rotate(piece, ccw) ==
  [piece EXCEPT !.blocks = [i \in 1 .. Len(piece.blocks) |->
                              PointRotate(piece.blocks[i], ccw, piece.centroid)]]

\* A mutant of fitsAt: rows above the grid are tested like the others, so
\* a block at a row < 0 never fits.
RECURSIVE fitsAtNoSkipFrom(_, _, _, _, _)
fitsAtNoSkipFrom(piece, g, x, y, i) ==
  IF i > Len(piece.blocks) THEN TRUE
  ELSE LET px == piece.blocks[i].x + x
           py == piece.blocks[i].y + y
       IN  IF px < Num(0) \/ px >= Num(GRID_WIDTH) \/ py >= Num(GRID_HEIGHT)
           THEN FALSE
           ELSE IF notZeroAt(g, px, py) THEN FALSE
           ELSE fitsAtNoSkipFrom(piece, g, x, y, i + 1)

fitsAtNoSkip(piece, g, x, y) == fitsAtNoSkipFrom(piece, g, x, y, 1)

\* The loop of Piece.fitsAt from block i on.  (grid[py] of a half-integer
\* row >= 0 would throw; the blocks of the program's pieces are integers.)
RECURSIVE fitsAtFrom(_, _, _, _, _)
fitsAtFrom(piece, g, x, y, i) ==
  IF i > Len(piece.blocks) THEN TRUE
  ELSE LET px == piece.blocks[i].x + x
           py == piece.blocks[i].y + y
       IN  IF px < Num(0) \/ px >= Num(GRID_WIDTH) \/ py >= Num(GRID_HEIGHT)
           THEN FALSE
           ELSE IF py < Num(0) THEN fitsAtFrom(piece, g, x, y, i + 1)
           ELSE IF notZeroAt(g, px, py) THEN FALSE
           ELSE fitsAtFrom(piece, g, x, y, i + 1)

\* Piece.fitsAt(x, y).
fitsAt(piece, g, x, y) == fitsAtFrom(piece, g, x, y, 1)

\* Piece.moveDown(): the piece and the grid after it, its result (true:
\* locked; none when place() threw) and what it threw.  placed tells that
\* place() was called.
moveDown(piece, g) ==
  IF fitsAt(piece, g, piece.position.x, piece.position.y + Num(1))
  THEN [piece |-> [piece EXCEPT !.position.y = @ + Num(1)], grid |-> g,
        ret |-> FALSE, threw |-> "", placed |-> FALSE]
  ELSE WithValue(place(piece, g), LAMBDA p :
         [piece |-> piece, grid |-> p.grid, ret |-> p.threw = "",
          threw |-> p.threw, placed |-> TRUE])

\* A mutant of moveHoriz: the step is taken without asking fitsAt.
moveHorizNoCheck(piece, g, dx) ==
  [piece |-> [piece EXCEPT !.position.x = @ + dx], ret |-> TRUE, threw |-> ""]

\* Piece.moveHoriz(dx), dx in halves: the piece after it and its result.
moveHoriz(piece, g, dx) ==
  IF ~isInt(dx) THEN [piece |-> piece, ret |-> FALSE, threw |-> "dx should be a number"]
  ELSE IF fitsAt(piece, g, piece.position.x + dx, piece.position.y)
  THEN [piece |-> [piece EXCEPT !.position.x = @ + dx], ret |-> TRUE, threw |-> ""]
  ELSE [piece |-> piece, ret |-> FALSE, threw |-> ""]

\* ------------------------------------------------------------- kick table
\* KICK_RANGE: -MAX_KICK .. MAX_KICK in ascending order.
KICK_RANGE == [i \in 1 .. 2 * MAX_KICK + 1 |-> i - 1 - MAX_KICK]

RECURSIVE concatAll(_, _)
concatAll(rows, i) ==
  IF i > Len(rows) THEN << >> ELSE rows[i] \o concatAll(rows, i + 1)

\* The comparator of the sort: negative, zero or positive.
sqmagCompare(a, b) == (a.x * a.x + a.y * a.y) - (b.x * b.x + b.y * b.y)

\* Array.prototype.sort is stable: an element goes after every element that
\* does not compare greater than it.
RECURSIVE insertSorted(_, _)
insertSorted(sorted, e) ==
  IF sorted = << >> THEN << e >>
  ELSE IF sqmagCompare(sorted[Len(sorted)], e) <= 0 THEN Append(sorted, e)
  ELSE Append(insertSorted(SubSeq(sorted, 1, Len(sorted) - 1), e),
              sorted[Len(sorted)])

RECURSIVE stableSort(_, _)
stableSort(xs, n) ==
  IF n = 0 THEN << >> ELSE insertSorted(stableSort(xs, n - 1), xs[n])

\* KICK_DELTAS: for dy over KICK_RANGE, for dx over KICK_RANGE, the point
\* (dx, dy); the rows concatenated and sorted by squared magnitude.
KICK_DELTAS ==
  LET rows == [r \in 1 .. Len(KICK_RANGE) |->
                 [c \in 1 .. Len(KICK_RANGE) |->
                    Point(Num(KICK_RANGE[c]), Num(KICK_RANGE[r]))]]
      all == concatAll(rows, 1)
  IN  stableSort(all, Len(all))

\* The loop of kickRotate over KICK_DELTAS from entry i on, for the piece
\* already rotated: the index of the first offset that fits, 0 when none.
RECURSIVE firstKick(_, _, _)
firstKick(rotated, g, i) ==
  IF i > Len(KICK_DELTAS) THEN 0
  ELSE IF fitsAt(rotated, g, rotated.position.x + KICK_DELTAS[i].x,
                             rotated.position.y + KICK_DELTAS[i].y)
  THEN i
  ELSE firstKick(rotated, g, i + 1)

\* A mutant of kickRotate: the failed rotation is not turned back.
kickRotateNoRevert(piece, g, ccw) ==
  LET rotated == rotate(piece, ccw)
      k == firstKick(rotated, g, 1)
  IN  IF k # 0
      THEN [piece |-> [rotated EXCEPT !.position.x = @ + KICK_DELTAS[k].x,
                                      !.position.y = @ + KICK_DELTAS[k].y],
            ret |-> TRUE]
      ELSE [piece |-> rotated, ret |-> FALSE]

\* A mutant of kickRotate: the direction is not passed on, so the blocks are
\* always turned with rotate()'s default, ccw = false.
kickRotateOneWay(piece, g, ccw) ==
  LET rotated == rotate(piece, FALSE)
      k == firstKick(rotated, g, 1)
  IN  IF k # 0
      THEN [piece |-> [rotated EXCEPT !.position.x = @ + KICK_DELTAS[k].x,
                                      !.position.y = @ + KICK_DELTAS[k].y],
            ret |-> TRUE]
      ELSE [piece |-> rotate(rotated, TRUE), ret |-> FALSE]

\* A mutant of kickRotate: the table is walked from its last entry.
kickRotateLast(piece, g, ccw) ==
  LET rotated == rotate(piece, ccw)
      fits == {i \in 1 .. Len(KICK_DELTAS) :
                 fitsAt(rotated, g, rotated.position.x + KICK_DELTAS[i].x,
                                    rotated.position.y + KICK_DELTAS[i].y)}
      k == IF fits = {} THEN 0 ELSE CHOOSE i \in fits : \A j \in fits : j <= i
  IN  IF k # 0
      THEN [piece |-> [rotated EXCEPT !.position.x = @ + KICK_DELTAS[k].x,
                                      !.position.y = @ + KICK_DELTAS[k].y],
            ret |-> TRUE]
      ELSE [piece |-> rotate(rotated, ~ccw), ret |-> FALSE]

\* Piece.kickRotate(ccw): the piece after it and its result.
kickRotate(piece, g, ccw) ==
  LET rotated == rotate(piece, ccw)
      k == firstKick(rotated, g, 1)
  IN  IF k # 0
      THEN [piece |-> [rotated EXCEPT !.position.x = @ + KICK_DELTAS[k].x,
                                      !.position.y = @ + KICK_DELTAS[k].y],
            ret |-> TRUE]
      ELSE [piece |-> rotate(rotated, ~ccw), ret |-> FALSE]

\* --------------------------------------------------------------------- Bag
\* (Math.random() * (i + 1)) | 0 for Math.random() = r / RandomLevels.
randomIndex(r, i) == (r * (i + 1)) \div RandomLevels

\* The draws of one shuffle: Math.random()'s numerator at each i of the loop.
Draws == [1 .. Len(PIECE_STRINGS) - 1 -> 0 .. RandomLevels - 1]

\* A mutant of shuffle's loop: bag[i] takes bag[j], and bag[j] is left as
\* it was.
RECURSIVE shuffleFromCopy(_, _, _)
shuffleFromCopy(b, i, rs) ==
  IF i <= 0 THEN b
  ELSE LET j == randomIndex(rs[i], i)
       IN  shuffleFromCopy([b EXCEPT ![i + 1] = b[j + 1]], i - 1, rs)

\* The loop of Bag.shuffle from i (0-based) down to 1: bag[i] and bag[j]
\* are exchanged.
RECURSIVE shuffleFrom(_, _, _)
shuffleFrom(b, i, rs) ==
  IF i <= 0 THEN b
  ELSE LET j == randomIndex(rs[i], i)
       IN  shuffleFrom([b EXCEPT ![i + 1] = b[j + 1], ![j + 1] = b[i + 1]],
                       i - 1, rs)

\* Bag.shuffle(): the bag object after it.
shuffle(bg, rs) ==
  [bag |-> shuffleFrom(bg.bag, Len(bg.bag) - 1, rs), index |-> 0]

\* new Bag(): clones of PIECES, shuffled.
newBag(rs) ==
  shuffle([bag |-> [i \in 1 .. Len(PIECES) |-> clone(PIECES[i])], index |-> 0], rs)

\* Bag.next(): the piece returned and the bag object after the call.
next(bg, rs) ==
  LET ret == bg.bag[bg.index + 1]
      advanced == [bg EXCEPT !.index = @ + 1]
  IN  [ret |-> ret,
       bag |-> IF advanced.index >= Len(advanced.bag)
               THEN shuffle(advanced, rs) ELSE advanced]

\* ----------------------------------------------------------------- session
\* currentPiece === null.
null == [index |-> 0]

\* xs.reduce((x, y) => Math.max(x, y), min || xs[0]) with no min given.
RECURSIVE reduceMax(_, _, _)
reduceMax(xs, i, acc0) ==
  WithValue(acc0, LAMBDA acc :
    IF i > Len(xs) THEN acc
    ELSE reduceMax(xs, i + 1, IF xs[i] > acc THEN xs[i] ELSE acc))

arrayMax(xs0) == WithValue(xs0, LAMBDA xs : reduceMax(xs, 1, xs[1]))

\* v | 0 for a value v = n / d (d > 0): the integer part, toward zero.
truncDiv(n, d) == IF n >= 0 THEN n \div d ELSE -((-n) \div d)

\* spawnX of spawn() on a grid width columns wide (a whole number, not in
\* halves): (width - maxX) / 2 | 0, maxX being held in halves.
spawnColumn(piece, width) ==
  truncDiv(Num(width)
             - arrayMax([i \in 1 .. Len(piece.blocks) |-> piece.blocks[i].x]),
           4)

\* A mutant of spawn: spawnY is -maxY, one row lower.
spawnOneRowLower(cur, bg, rs) ==
  IF cur # null
  THEN [currentPiece |-> cur, bag |-> bg,
        threw |-> "spawning while current piece is not null"]
  ELSE LET n == next(bg, rs)
           piece == clone(n.ret)
           maxY == arrayMax([i \in 1 .. Len(piece.blocks) |-> piece.blocks[i].y])
           spawnX == spawnColumn(piece, GRID_WIDTH)
           spawnY == Num(0) - maxY
       IN  [currentPiece |-> [piece EXCEPT !.position = Point(Num(spawnX), spawnY)],
            bag |-> n.bag, threw |-> ""]

\* spawn(): the session after it, or the assertion's message in threw.
spawn(cur, bg, rs) ==
  IF cur # null
  THEN [currentPiece |-> cur, bag |-> bg,
        threw |-> "spawning while current piece is not null"]
  ELSE WithValue(next(bg, rs), LAMBDA n :
         WithValue(clone(n.ret), LAMBDA piece :
           LET maxY == arrayMax([i \in 1 .. Len(piece.blocks) |-> piece.blocks[i].y])
               spawnX == spawnColumn(piece, GRID_WIDTH)
               spawnY == Num(-1) - maxY
           IN  [currentPiece |-> [piece EXCEPT !.position = Point(Num(spawnX), spawnY)],
                bag |-> n.bag, threw |-> ""]))

\* grid[y].every(x => x !== 0)
rowFull(row) == \A x \in 1 .. Len(row) : row[x] # 0

\* grid.splice(y, 1), y 0-based.
splice1(g, y) == SubSeq(g, 1, y) \o SubSeq(g, y + 2, Len(g))

\* The first loop of clearLines from row y (0-based) up to row 0.
RECURSIVE clearFrom(_, _)
clearFrom(g0, y) ==
  WithValue(g0, LAMBDA g :
    IF y < 0 THEN g
    ELSE clearFrom(IF rowFull(g[y + 1]) THEN splice1(g, y) ELSE g, y - 1))

\* The second loop of clearLines: empty rows at the top until the grid has
\* GRID_HEIGHT rows again.  (A longer grid would loop for ever; the first
\* loop only shortens it.)
RECURSIVE refill(_)
refill(g0) ==
  WithValue(g0, LAMBDA g :
    IF Len(g) >= GRID_HEIGHT THEN g ELSE refill(<< EmptyRow >> \o g))

\* A mutant of clearLines: the first loop runs from row 0 up to the last row,
\* so the row that takes the place of a deleted one is passed over.
RECURSIVE clearUpward(_, _)
clearUpward(g, y) ==
  IF y >= Len(g) THEN g
  ELSE IF rowFull(g[y + 1]) THEN clearUpward(splice1(g, y), y + 1)
  ELSE clearUpward(g, y + 1)

clearLinesUpward(g) == refill(clearUpward(g, 0))

\* clearLines(): the grid after it.
clearLines(g) == refill(clearFrom(g, GRID_HEIGHT - 1))

\* A mutant of movePieceDown: the next piece is spawned in the tick that
\* locks, before the slot is emptied.
movePieceDownSpawnOnLock(g, cur, bg, rs) ==
  IF cur = null
  THEN LET s == spawn(cur, bg, rs)
       IN  [grid |-> g, currentPiece |-> s.currentPiece, bag |-> s.bag,
            threw |-> s.threw, spawned |-> TRUE, placed |-> FALSE]
  ELSE LET m == moveDown(cur, g)
       IN  IF m.threw # ""
           THEN [grid |-> m.grid, currentPiece |-> m.piece, bag |-> bg,
                 threw |-> m.threw, spawned |-> FALSE, placed |-> m.placed]
           ELSE IF m.ret
           THEN LET s == spawn(m.piece, bg, rs)
                IN  [grid |-> m.grid, currentPiece |-> s.currentPiece,
                     bag |-> s.bag, threw |-> s.threw, spawned |-> TRUE,
                     placed |-> m.placed]
           ELSE [grid |-> clearLines(m.grid), currentPiece |-> m.piece,
                 bag |-> bg, threw |-> "", spawned |-> FALSE,
                 placed |-> m.placed]

\* A mutant of movePieceDown: an active piece is left where it is, neither
\* lowered nor locked.
movePieceDownNoMove(g, cur, bg, rs) ==
  IF cur = null
  THEN LET s == spawn(cur, bg, rs)
       IN  [grid |-> g, currentPiece |-> s.currentPiece, bag |-> s.bag,
            threw |-> s.threw, spawned |-> TRUE, placed |-> FALSE]
  ELSE [grid |-> g, currentPiece |-> cur, bag |-> bg, threw |-> "",
        spawned |-> FALSE, placed |-> FALSE]

\* movePieceDown(): the grid, the slot and the bag after it, and what it
\* threw; spawned and placed tell that spawn() and place() were called.
\* (render() reads the state and changes none of it.)
movePieceDown(g, cur, bg, rs) ==
  IF cur = null
  THEN LET s == spawn(cur, bg, rs)
       IN  [grid |-> g, currentPiece |-> s.currentPiece, bag |-> s.bag,
            threw |-> s.threw, spawned |-> TRUE, placed |-> FALSE]
  ELSE WithValue(moveDown(cur, g), LAMBDA m :
         IF m.threw # ""
         THEN [grid |-> m.grid, currentPiece |-> m.piece, bag |-> bg,
               threw |-> m.threw, spawned |-> FALSE, placed |-> m.placed]
         ELSE IF m.ret
         THEN [grid |-> m.grid, currentPiece |-> null, bag |-> bg,
               threw |-> "", spawned |-> FALSE, placed |-> m.placed]
         ELSE [grid |-> clearLines(m.grid), currentPiece |-> m.piece,
               bag |-> bg, threw |-> "", spawned |-> FALSE,
               placed |-> m.placed])

\* while (!currentPiece.moveDown());
RECURSIVE hardDrop(_, _)
hardDrop(piece, g) ==
  LET m == moveDown(piece, g)
  IN  IF m.threw # "" \/ m.ret THEN m ELSE hardDrop(m.piece, m.grid)

\* The key codes the listener answers, and one it does not.
KeyCodes == {"ArrowLeft", "ArrowRight", "ArrowDown", "ArrowUp", "KeyZ", "KeyX",
             "Space"}

\* The keydown listener of setupKeyboard for ev.code = code: the grid and
\* the slot after it, and what it threw; placed tells that place() was
\* called.
keydown(g, cur, code) ==
  IF cur = null
  THEN [grid |-> g, currentPiece |-> cur, threw |-> "", placed |-> FALSE]
  ELSE IF code = "ArrowLeft"
  THEN LET m == moveHoriz(cur, g, Num(-1))
       IN  [grid |-> g, currentPiece |-> m.piece, threw |-> m.threw,
            placed |-> FALSE]
  ELSE IF code = "ArrowRight"
  THEN LET m == moveHoriz(cur, g, Num(1))
       IN  [grid |-> g, currentPiece |-> m.piece, threw |-> m.threw,
            placed |-> FALSE]
  ELSE IF code = "ArrowDown"
  THEN LET m == moveDown(cur, g)
       IN  [grid |-> m.grid, currentPiece |-> m.piece, threw |-> m.threw,
            placed |-> m.placed]
  ELSE IF code = "ArrowUp"
  THEN LET m == hardDrop(cur, g)
       IN  [grid |-> m.grid, currentPiece |-> m.piece, threw |-> m.threw,
            placed |-> m.placed]
  ELSE IF code = "KeyZ"
  THEN [grid |-> g, currentPiece |-> kickRotate(cur, g, TRUE).piece,
        threw |-> "", placed |-> FALSE]
  ELSE IF code = "KeyX"
  THEN [grid |-> g, currentPiece |-> kickRotate(cur, g, FALSE).piece,
        threw |-> "", placed |-> FALSE]
  ELSE [grid |-> g, currentPiece |-> cur, threw |-> "", placed |-> FALSE]

\* ------------------------------------------------------------------- state
VARIABLES
  grid,          \* the settled cells, grid[row][column], 0 = empty
  currentPiece,  \* the active piece, or null
  bag,           \* the Bag object: its pieces and its index
  gameTimer,     \* TRUE while the interval set by init() is running
  spawns,        \* how many times spawn() has been called
  locks,         \* how many times Piece.place() has been called
  event,         \* the last callback or method run: see Event
  run,           \* the calls made in a row on the piece: see Rotated, Kicked
  returned,      \* the identities next() returned since the last bag boundary
  heap           \* the objects by reference, where sharing matters: see Heap

vars ==
  << grid, currentPiece, bag, gameTimer, spawns, locks, event, run, returned, heap >>

\* returned after next() has returned a piece of identity id: a run of
\* Len(PIECES) calls is complete when the next one begins.
Returned(id) ==
  IF Len(returned) >= Len(PIECES) THEN << id >> ELSE Append(returned, id)

\* The draws of the shuffles of a game: Math.random() returning one number
\* all through a shuffle.
GameDraws ==
  { [i \in 1 .. Len(PIECE_STRINGS) - 1 |-> r] : r \in 0 .. RandomLevels - 1 }

\* The last callback ("tick", "keydown") or method ("rotate", "kickRotate",
\* "fitsAt") run: the key's code, the method's ccw or its (x, y), its
\* result, and what the callback threw ("": nothing).  A field the event
\* has no use for holds "", FALSE or POINT_ZERO.
Event(name, code, ccw, at, ret, threw) ==
  [name |-> name, code |-> code, ccw |-> ccw, at |-> at, ret |-> ret,
   threw |-> threw]

NoRun == [name |-> "", ccw |-> FALSE, n |-> 0, from |-> null]

\* ------------------------------------------------------- the game: Spec
\* The program after init(): an empty grid, no piece, a shuffled bag, the
\* timer running.
Init ==
  /\ grid = EmptyGrid
  /\ currentPiece = null
  /\ \E rs \in GameDraws : bag = newBag(rs)
  /\ gameTimer = TRUE
  /\ spawns = 0
  /\ locks = 0
  /\ event = Event("init", "", FALSE, POINT_ZERO, FALSE, "")
  /\ run = NoRun
  /\ returned = << >>
  /\ heap = << >>

\* The draws a tick can make: those of a shuffle when movePieceDown() spawns
\* the last piece of the bag, and none to choose otherwise.
DrawsOfTick(cur, bg) ==
  IF cur = null /\ bg.index + 1 >= Len(bg.bag) THEN GameDraws
  ELSE { [i \in 1 .. Len(PIECE_STRINGS) - 1 |-> 0] }

\* The interval callback: movePieceDown() in a try, clearInterval in the
\* catch; r is what movePieceDown() did.  (The draws are read only when
\* next() reshuffles the bag.)
Tick ==
  /\ gameTimer
  /\ \E rs \in DrawsOfTick(currentPiece, bag) :
       \E r \in { movePieceDown(grid, currentPiece, bag, rs) } :
           /\ r.spawned => spawns < MaxSpawns
           /\ r.placed => locks < MaxLocks
           /\ grid' = r.grid
           /\ currentPiece' = r.currentPiece
           /\ bag' = r.bag
           /\ gameTimer' = (r.threw = "")
           /\ spawns' = IF r.spawned THEN spawns + 1 ELSE spawns
           /\ locks' = IF r.placed THEN locks + 1 ELSE locks
           /\ event' = Event("tick", "", FALSE, POINT_ZERO, FALSE, r.threw)
           /\ returned' = IF r.spawned /\ r.threw = ""
                           THEN Returned(r.currentPiece.index) ELSE returned
  /\ UNCHANGED << run, heap >>

\* A keydown event.  An exception leaves the listener; the timer runs on.
Key ==
  \E code \in KeyCodes :
    LET r == keydown(grid, currentPiece, code)
    IN  /\ r.placed => locks < MaxLocks
        /\ grid' = r.grid
        /\ currentPiece' = r.currentPiece
        /\ locks' = IF r.placed THEN locks + 1 ELSE locks
        /\ event' = Event("keydown", code, FALSE, POINT_ZERO, FALSE, r.threw)
        /\ UNCHANGED << bag, gameTimer, spawns, run, returned, heap >>

Next == Tick \/ Key

Spec == Init /\ [][Next]_vars

\* The game with its timer: while the interval is set, its callback runs
\* again and again.  (Nothing makes a key event happen.)
SpecFair == Spec /\ WF_vars(Tick)

\* ------------------------------------------- the Piece methods: SpecPiece
\* The settled cells of a grid given by the height of each column, every
\* settled cell holding the identity id.
gridOfHeights(hs, id) ==
  [y \in 1 .. GRID_HEIGHT |->
     [x \in 1 .. GRID_WIDTH |->
        IF y > GRID_HEIGHT - hs[((x - 1) % Len(hs)) + 1] THEN id ELSE 0]]

\* The column heights of the input grids: empty; a well one column wide, as
\* deep as the grid; a well two columns wide; an uneven floor.
ColumnHeights ==
  { << 0 >>,
    << 0, GRID_HEIGHT >>  \o [i \in 1 .. GRID_WIDTH - 2 |-> GRID_HEIGHT],
    << 0, 0 >>  \o [i \in 1 .. GRID_WIDTH - 2 |-> GRID_HEIGHT - 1],
    << 2, 0, 1, 3 >> }

Grids == { gridOfHeights(hs, 7) : hs \in ColumnHeights }

\* The input pieces: a clone of each kind at each position around the grid.
InputPieces ==
  { [clone(PIECES[k]) EXCEPT !.position = Point(Num(x), Num(y))] :
      k \in 1 .. Len(PIECES), x \in -1 .. GRID_WIDTH, y \in -4 .. GRID_HEIGHT - 1 }

InitPiece ==
  /\ grid \in Grids
  /\ currentPiece \in InputPieces
  /\ bag = newBag([i \in 1 .. Len(PIECE_STRINGS) - 1 |-> 0])
  /\ gameTimer = FALSE
  /\ spawns = 0
  /\ locks = 0
  /\ event = Event("init", "", FALSE, POINT_ZERO, FALSE, "")
  /\ run = NoRun
  /\ returned = << >>
  /\ heap = << >>

\* run after a call of rotate(ccw): up to four calls in a row in one
\* direction count as one run, from the piece before the first of them.
Rotated(ccw) ==
  IF run.name = "rotate" /\ run.ccw = ccw /\ run.n < 4
  THEN [run EXCEPT !.n = @ + 1]
  ELSE [name |-> "rotate", ccw |-> ccw, n |-> 1, from |-> currentPiece]

\* run after a call of kickRotate(ccw): a call right after one call in the
\* other direction makes a run of two, from the piece before the first.
Kicked(ccw) ==
  IF run.name = "kickRotate" /\ run.ccw = ~ccw /\ run.n = 1
  THEN [run EXCEPT !.n = 2]
  ELSE [name |-> "kickRotate", ccw |-> ccw, n |-> 1, from |-> currentPiece]

\* currentPiece.rotate(ccw)
CallRotate ==
  \E ccw \in BOOLEAN :
    /\ currentPiece' = rotate(currentPiece, ccw)
    /\ event' = Event("rotate", "", ccw, POINT_ZERO, FALSE, "")
    /\ run' = Rotated(ccw)
    /\ UNCHANGED << grid, bag, gameTimer, spawns, locks, returned, heap >>

\* currentPiece.kickRotate(ccw)
CallKickRotate ==
  \E ccw \in BOOLEAN :
    LET r == kickRotate(currentPiece, grid, ccw)
    IN  /\ currentPiece' = r.piece
        /\ event' = Event("kickRotate", "", ccw, POINT_ZERO, r.ret, "")
        /\ run' = Kicked(ccw)
        /\ UNCHANGED << grid, bag, gameTimer, spawns, locks, returned, heap >>

\* currentPiece.fitsAt(x, y) for the positions the program asks about: the
\* piece's own and the ones beside and below it.
CallFitsAt ==
  \E dx \in -1 .. 1, dy \in 0 .. 1 :
    LET x == currentPiece.position.x + Num(dx)
        y == currentPiece.position.y + Num(dy)
    IN  /\ event' = Event("fitsAt", "", FALSE, Point(x, y),
                           fitsAt(currentPiece, grid, x, y), "")
        /\ run' = NoRun
        /\ UNCHANGED << grid, currentPiece, bag, gameTimer, spawns, locks, returned, heap >>

NextPiece == CallRotate \/ CallKickRotate \/ CallFitsAt

SpecPiece == InitPiece /\ [][NextPiece]_vars

\* ------------------------------------------- moving and drawing: SpecMove
\* positionOverride || this.position of Piece.render: a number that is 0
\* counts as no override.
orPosition(override, position) == IF override = 0 THEN position ELSE override

\* Piece.render(color, positionOverrideX, positionOverrideY): the position
\* (posX, posY) the blocks are drawn from.
pieceRenderAt(piece, overrideX, overrideY) ==
  Point(orPosition(overrideX, piece.position.x),
        orPosition(overrideY, piece.position.y))

\* The loop of render(): ghostY, counted up while the piece fits one row
\* lower.
RECURSIVE ghostFrom(_, _, _)
ghostFrom(piece, g, ghostY) ==
  IF fitsAt(piece, g, piece.position.x, ghostY + Num(1))
  THEN ghostFrom(piece, g, ghostY + Num(1))
  ELSE ghostY

\* render() with a piece active: the ghostY of its loop and the position the
\* gray ghost is drawn from, with the grid and the piece after it.
render(g, cur) ==
  LET ghostY == ghostFrom(cur, g, cur.position.y)
  IN  [ghostY |-> ghostY,
       ghostAt |-> pieceRenderAt(cur, cur.position.x, ghostY),
       grid |-> g, currentPiece |-> cur]

\* The horizontal steps asked of moveHoriz.
Steps == -2 .. 2

\* currentPiece.moveDown()
CallMoveDown ==
  LET r == moveDown(currentPiece, grid)
  IN  /\ r.placed => locks < MaxLocks
      /\ grid' = r.grid
      /\ currentPiece' = r.piece
      /\ locks' = IF r.placed THEN locks + 1 ELSE locks
      /\ event' = Event("moveDown", "", FALSE, POINT_ZERO, r.ret, r.threw)
      /\ run' = NoRun
      /\ UNCHANGED << bag, gameTimer, spawns, returned, heap >>

\* currentPiece.moveHoriz(dx)
CallMoveHoriz ==
  \E dx \in Steps :
    LET r == moveHoriz(currentPiece, grid, Num(dx))
    IN  /\ currentPiece' = r.piece
        /\ event' = Event("moveHoriz", "", FALSE, Point(Num(dx), Num(0)), r.ret,
                           r.threw)
        /\ run' = NoRun
        /\ UNCHANGED << grid, bag, gameTimer, spawns, locks, returned, heap >>

\* render() with the piece active: event.at is where the ghost is drawn.
CallRender ==
  LET r == render(grid, currentPiece)
  IN  /\ grid' = r.grid
      /\ currentPiece' = r.currentPiece
      /\ event' = Event("render", "", FALSE, r.ghostAt, FALSE, "")
      /\ run' = NoRun
      /\ UNCHANGED << bag, gameTimer, spawns, locks, returned, heap >>

NextMove == CallMoveDown \/ CallMoveHoriz \/ CallRender

SpecMove == InitPiece /\ [][NextMove]_vars

\* ------------------------------------------------- clearLines: SpecGrid
\* The rows of the input grids: empty, full (in one identity, and in
\* several), and three that are partly settled.
RowKinds ==
  { EmptyRow,
    [x \in 1 .. GRID_WIDTH |-> 7],
    [x \in 1 .. GRID_WIDTH |-> ((x - 1) % 7) + 1],
    [x \in 1 .. GRID_WIDTH |-> IF x = 1 THEN 1 ELSE 0],
    [x \in 1 .. GRID_WIDTH |-> IF x = 2 THEN 2 ELSE 0],
    [x \in 1 .. GRID_WIDTH |-> IF x = GRID_WIDTH THEN 0 ELSE 3] }

InitGrid ==
  /\ grid \in [1 .. GRID_HEIGHT -> RowKinds]
  /\ currentPiece = null
  /\ bag = newBag([i \in 1 .. Len(PIECE_STRINGS) - 1 |-> 0])
  /\ gameTimer = FALSE
  /\ spawns = 0
  /\ locks = 0
  /\ event = Event("init", "", FALSE, POINT_ZERO, FALSE, "")
  /\ run = NoRun
  /\ returned = << >>
  /\ heap = << >>

\* clearLines(); run.n tells how many rows were full before the call.
CallClearLines ==
  /\ grid' = clearLines(grid)
  /\ event' = Event("clearLines", "", FALSE, POINT_ZERO, FALSE, "")
  /\ run' = [name |-> "clearLines", ccw |-> FALSE,
             n |-> Cardinality({ y \in 1 .. Len(grid) : rowFull(grid[y]) }),
             from |-> null]
  /\ UNCHANGED << currentPiece, bag, gameTimer, spawns, locks, returned, heap >>

NextGrid == CallClearLines

SpecGrid == InitGrid /\ [][NextGrid]_vars

\* ---------------------------------------------------------- Bag: SpecBag
\* How many bags the count of run.n tells apart: from MaxBags on it stays.
MaxBags == 1

\* A fresh Bag, shuffled with any draws.
InitBag ==
  /\ grid = EmptyGrid
  /\ currentPiece = null
  /\ \E rs \in Draws : bag = newBag(rs)
  /\ gameTimer = FALSE
  /\ spawns = 0
  /\ locks = 0
  /\ event = Event("init", "", FALSE, POINT_ZERO, FALSE, "")
  /\ run = NoRun
  /\ returned = << >>
  /\ heap = << >>

\* The draws a call of next() reads: those of the shuffle, when the call
\* takes the last piece of the bag; none (any will do) when it does not.
DrawsOfNext(bg) ==
  IF bg.index + 1 >= Len(bg.bag) THEN Draws
  ELSE { [i \in 1 .. Len(PIECE_STRINGS) - 1 |-> 0] }

\* bag.next(), with any draws for the shuffle it may run.  run.from is the
\* piece returned, run.n the number of the bag it came from (0 the first),
\* counted up to MaxBags.
CallNext ==
  \E rs \in DrawsOfNext(bag) :
    LET r == next(bag, rs)
    IN  /\ bag' = r.bag
        /\ returned' = Returned(r.ret.index)
        /\ event' = Event("next", "", FALSE, POINT_ZERO, FALSE, "")
        /\ run' = [name |-> "next", ccw |-> FALSE,
                   n |-> IF Len(returned) >= Len(PIECES) /\ run.n < MaxBags
                         THEN run.n + 1 ELSE run.n,
                   from |-> r.ret]
        /\ UNCHANGED << grid, currentPiece, gameTimer, spawns, locks, heap >>

NextBag == CallNext

SpecBag == InitBag /\ [][NextBag]_vars

\* ------------------------------------------------------- spawn: SpecSpawn
\* The grid with every cell settled.
FullGrid == [y \in 1 .. GRID_HEIGHT |-> [x \in 1 .. GRID_WIDTH |-> 7]]

\* Any of the input grids, the full one among them; no piece; a fresh bag.
InitSpawn ==
  /\ grid \in Grids \cup { FullGrid }
  /\ currentPiece = null
  /\ \E rs \in GameDraws : bag = newBag(rs)
  /\ gameTimer = FALSE
  /\ spawns = 0
  /\ locks = 0
  /\ event = Event("init", "", FALSE, POINT_ZERO, FALSE, "")
  /\ run = NoRun
  /\ returned = << >>
  /\ heap = << >>

\* spawn(), with or without a piece in the slot.
CallSpawn ==
  \E rs \in GameDraws :
    LET r == spawn(currentPiece, bag, rs)
    IN  /\ currentPiece' = r.currentPiece
        /\ bag' = r.bag
        /\ event' = Event("spawn", "", FALSE, POINT_ZERO, FALSE, r.threw)
        /\ returned' = IF r.threw = "" THEN Returned(r.currentPiece.index)
                        ELSE returned
        /\ run' = NoRun
        /\ UNCHANGED << grid, gameTimer, spawns, locks, heap >>

\* currentPiece = null, as movePieceDown() does when the piece has locked.
Discard ==
  /\ currentPiece # null
  /\ currentPiece' = null
  /\ event' = Event("discard", "", FALSE, POINT_ZERO, FALSE, "")
  /\ run' = NoRun
  /\ UNCHANGED << grid, bag, gameTimer, spawns, locks, returned, heap >>

NextSpawn == CallSpawn \/ Discard

SpecSpawn == InitSpawn /\ [][NextSpawn]_vars

\* ------------------------------------- objects and references: SpecCatalog
\* The Piece and Point objects by reference.  heap.point gives the x and y
\* of the Point object at an address, heap.piece the fields of the Piece
\* object at an address: blocks (the addresses of its Points; the array is
\* held in the Piece, map() making a new array for every clone), centroid
\* and position (addresses) and index.  heap.bag is the Bag object, its bag
\* the addresses of its Pieces; heap.currentPiece is the address in
\* currentPiece, NullRef for null.
NullRef == [at |-> 0]

\* Where the objects are put.  PIECES[k - 1] is Piece k, the clone of it
\* made by new Bag() Piece Len(PIECES) + k, and the clone made by spawn()
\* the Piece after these: the clone of the spawn before is garbage by then.
PieceAt(n) == [at |-> n]
CatalogAt(k) == PieceAt(k)
BagEntryAt(k) == PieceAt(Len(PIECES) + k)
ActiveAt == PieceAt(2 * Len(PIECES) + 1)

\* The Points made for the Piece at p: its blocks, its centroid, the
\* position the constructor clones, and the position spawn() gives it.
PointAt(p, j) == [of |-> p.at, no |-> j]
CentroidOf(p) == PointAt(p, NUM_BLOCKS + 1)
PositionOf(p) == PointAt(p, NUM_BLOCKS + 2)
SpawnPositionOf(p) == PointAt(p, NUM_BLOCKS + 3)

\* new Point(x, y), the object put at address a.
newPoint(h, a, x, y) == [h EXCEPT !.point = (a :> Point(x, y)) @@ @]

\* Point.clone() of the Point at src, the new object put at dst.
PointClone(h, src, dst) == newPoint(h, dst, h.point[src].x, h.point[src].y)

\* blocks.map(p => p.clone()) from block i on, for the new Piece at dst.
RECURSIVE cloneBlocksFrom(_, _, _, _)
cloneBlocksFrom(h, blocks, dst, i) ==
  IF i > Len(blocks) THEN h
  ELSE cloneBlocksFrom(PointClone(h, blocks[i], PointAt(dst, i)), blocks, dst,
                       i + 1)

\* A mutant of Piece.clone: the blocks array is copied and its Points are
\* not, so the clone holds the Points of the Piece it was made from.
PieceCloneSharedPoints(h0, src, dst) ==
  WithValue(h0, LAMBDA h :
    LET s == h.piece[src]
        h1 == PointClone(PointClone(h, s.centroid, CentroidOf(dst)),
                         s.position, PositionOf(dst))
    IN  [h1 EXCEPT !.piece = (dst :> [blocks |-> s.blocks,
                                       centroid |-> CentroidOf(dst),
                                       index |-> s.index,
                                       position |-> PositionOf(dst)]) @@ @])

\* Piece.clone() of the Piece at src, the new Piece put at dst: every block
\* and the centroid are cloned, and the constructor clones the position it
\* is given (itself a clone, which is dropped).
PieceClone(h0, src, dst) ==
  WithValue(h0, LAMBDA h :
    LET s == h.piece[src]
        h1 == PointClone(PointClone(cloneBlocksFrom(h, s.blocks, dst, 1),
                                    s.centroid, CentroidOf(dst)),
                         s.position, PositionOf(dst))
    IN  [h1 EXCEPT !.piece = (dst :> [blocks |-> [i \in 1 .. Len(s.blocks) |->
                                                    PointAt(dst, i)],
                                       centroid |-> CentroidOf(dst),
                                       index |-> s.index,
                                       position |-> PositionOf(dst)]) @@ @])

\* The Piece at address p as a value: its Points read from the heap.
deref(h, p) ==
  IF p = NullRef THEN null
  ELSE [blocks |-> [i \in 1 .. Len(h.piece[p].blocks) |->
                      h.point[h.piece[p].blocks[i]]],
        centroid |-> h.point[h.piece[p].centroid],
        index |-> h.piece[p].index,
        position |-> h.point[h.piece[p].position]]

\* The Bag object as a value.
derefBag(h) ==
  [bag |-> [i \in 1 .. Len(h.bag.bag) |-> deref(h, h.bag.bag[i])],
   index |-> h.bag.index]

\* The loop of Piece.rotate on the Piece at p, from block i on: each Point
\* is turned in place about the Piece's centroid.
RECURSIVE PieceRotateFrom(_, _, _, _)
PieceRotateFrom(h0, p, ccw, i) ==
  WithValue(h0, LAMBDA h :
    IF i > Len(h.piece[p].blocks) THEN h
    ELSE PieceRotateFrom(
           [h EXCEPT !.point[h.piece[p].blocks[i]] =
                        PointRotate(@, ccw, h.point[h.piece[p].centroid])],
           p, ccw, i + 1))

\* Piece.rotate(ccw) on the Piece at p.
PieceRotate(h, p, ccw) == PieceRotateFrom(h, p, ccw, 1)

\* this.position.x += dx; this.position.y += dy of moveDown, moveHoriz and
\* kickRotate on the Piece at p (dx, dy in halves): the position object is
\* changed in place.
PieceMove(h, p, dx, dy) ==
  [h EXCEPT !.point[h.piece[p].position] = Point(@.x + dx, @.y + dy)]

\* PIECES = PIECE_STRINGS.map(pieceFromString) from kind k on: every Piece
\* of the catalog with Points of its own.
RECURSIVE catalogFrom(_, _)
catalogFrom(h0, k) ==
  WithValue(h0, LAMBDA h :
    IF k > Len(PIECES) THEN h
    ELSE LET v == PIECES[k]
             p == CatalogAt(k)
         IN  catalogFrom(
               [point |-> [a \in { PointAt(p, j) : j \in 1 .. NUM_BLOCKS + 2 } |->
                             IF a.no <= NUM_BLOCKS THEN v.blocks[a.no]
                             ELSE IF a = CentroidOf(p) THEN v.centroid
                             ELSE v.position] @@ h.point,
                piece |-> (p :> [blocks |-> [i \in 1 .. NUM_BLOCKS |-> PointAt(p, i)],
                                 centroid |-> CentroidOf(p),
                                 index |-> v.index,
                                 position |-> PositionOf(p)]) @@ h.piece,
                bag |-> h.bag, currentPiece |-> h.currentPiece],
               k + 1))

\* PIECES.map(p => p.clone()) of new Bag() from kind k on.
RECURSIVE bagClonesFrom(_, _)
bagClonesFrom(h, k) ==
  IF k > Len(PIECES) THEN h
  ELSE bagClonesFrom(PieceClone(h, CatalogAt(k), BagEntryAt(k)), k + 1)

\* The program's objects once the module is loaded: the catalog, and the
\* Bag holding a clone of every Piece of the catalog, shuffled.
loadedHeap(rs) ==
  LET h == bagClonesFrom(
             catalogFrom([point |-> << >>, piece |-> << >>,
                          bag |-> [bag |-> << >>, index |-> 0],
                          currentPiece |-> NullRef], 1), 1)
  IN  [h EXCEPT !.bag = shuffle([bag |-> [k \in 1 .. Len(PIECES) |-> BagEntryAt(k)],
                                 index |-> 0], rs)]

\* spawn() on the objects: bag.next().clone() becomes the current piece and
\* is given a new Point as its position.
spawnInHeap(h0, rs) ==
  WithValue(next(h0.bag, rs), LAMBDA n :
    WithValue(PieceClone([h0 EXCEPT !.bag = n.bag], n.ret, ActiveAt), LAMBDA h :
      LET piece == deref(h, ActiveAt)
          maxY == arrayMax([i \in 1 .. Len(piece.blocks) |-> piece.blocks[i].y])
          spawnX == spawnColumn(piece, GRID_WIDTH)
          spawnY == Num(-1) - maxY
      IN  [newPoint(h, SpawnPositionOf(ActiveAt), Num(spawnX), spawnY)
             EXCEPT !.piece[ActiveAt].position = SpawnPositionOf(ActiveAt),
                    !.currentPiece = ActiveAt]))

\* How many pieces are spawned: more than one bag of them.
MaxClones == 9

\* The view of the heap in the variables of the session.
heapView(h) ==
  /\ currentPiece' = deref(h, h.currentPiece)
  /\ bag' = derefBag(h)

InitCatalog ==
  /\ \E rs \in GameDraws : heap = loadedHeap(rs)
  /\ currentPiece = null
  /\ bag = derefBag(heap)
  /\ grid = EmptyGrid
  /\ gameTimer = TRUE
  /\ spawns = 0
  /\ locks = 0
  /\ event = Event("init", "", FALSE, POINT_ZERO, FALSE, "")
  /\ run = NoRun
  /\ returned = << >>

\* spawn(), with the draws of the shuffle next() may run.
SpawnObject ==
  /\ heap.currentPiece = NullRef
  /\ spawns < MaxClones
  /\ \E rs \in DrawsOfTick(null, heap.bag) :
       \E h \in { spawnInHeap(heap, rs) } :
         /\ heap' = h
         /\ heapView(h)
         /\ returned' = Returned(h.piece[ActiveAt].index)
  /\ spawns' = spawns + 1
  /\ event' = Event("spawn", "", FALSE, POINT_ZERO, FALSE, "")
  /\ UNCHANGED << grid, gameTimer, locks, run >>

\* rotate(ccw) on the current piece.  run.n is its kind, run.from the piece
\* as the rotation leaves it, taken at position zero.
RotateObject ==
  /\ heap.currentPiece # NullRef
  /\ \E ccw \in BOOLEAN :
       \E h \in { PieceRotate(heap, heap.currentPiece, ccw) } :
         /\ heap' = h
         /\ heapView(h)
         /\ event' = Event("rotate", "", ccw, POINT_ZERO, FALSE, "")
         /\ run' = [name |-> "rotate", ccw |-> ccw,
                    n |-> h.piece[h.currentPiece].index,
                    from |-> [deref(h, h.currentPiece) EXCEPT !.position = POINT_ZERO]]
  /\ UNCHANGED << grid, gameTimer, spawns, locks, returned >>

\* The steps moveHoriz, moveDown and kickRotate take.
MoveSteps == { Point(Num(-1), Num(0)), Point(Num(1), Num(0)), Point(Num(0), Num(1)) }

\* A step of the current piece that keeps its position in the columns of
\* the grid and above row 0.
MoveObject ==
  /\ heap.currentPiece # NullRef
  /\ \E d \in MoveSteps :
       \E h \in { PieceMove(heap, heap.currentPiece, d.x, d.y) } :
         /\ h.point[h.piece[h.currentPiece].position].x \in Num(0) .. Num(GRID_WIDTH - 1)
         /\ h.point[h.piece[h.currentPiece].position].y < Num(0)
         /\ heap' = h
         /\ heapView(h)
         /\ event' = Event("move", "", FALSE, d, FALSE, "")
  /\ UNCHANGED << grid, gameTimer, spawns, locks, run, returned >>

\* currentPiece = null of movePieceDown(): the piece is dropped.
DiscardObject ==
  /\ heap.currentPiece # NullRef
  /\ \E h \in { [heap EXCEPT !.currentPiece = NullRef] } :
       /\ heap' = h
       /\ heapView(h)
  /\ event' = Event("discard", "", FALSE, POINT_ZERO, FALSE, "")
  /\ UNCHANGED << grid, gameTimer, spawns, locks, run, returned >>

NextCatalog == SpawnObject \/ RotateObject \/ MoveObject \/ DiscardObject

SpecCatalog == InitCatalog /\ [][NextCatalog]_vars

\* ------------------------------------------------------------------ claims
\* What the claims say, in the words of the claims.

noFullRow(g) == \A y \in 1 .. Len(g) : ~rowFull(g[y])

\* The event is a command that runs moveDown on the active piece: a gravity
\* tick, a soft drop (ArrowDown) or a hard drop (ArrowUp).
isTick(e) == e.name = "tick"
isSoftDrop(e) == e.name = "keydown" /\ e.code = "ArrowDown"
isHardDrop(e) == e.name = "keydown" /\ e.code = "ArrowUp"

\* No soft or hard drop has locked a piece so far: every piece spawned
\* before the active one was placed once, by the tick that emptied the slot,
\* and the active one has not been placed.
onlyTicksLocked ==
  locks = IF currentPiece = null THEN spawns ELSE spawns - 1

\* C1 as claimed: on a gravity tick with a piece active, if moveDown locks,
\* the completed rows are cleared in that tick and the slot is emptied; if
\* it does not lock, the piece stays; and no piece is spawned while the grid
\* holds a full row.  (Stated for the ticks before which only ticks have
\* locked pieces, so that it is refuted on its own and not by C2's soft and
\* hard drops.)
C1_AsClaimed ==
  [][ (isTick(event') /\ onlyTicksLocked) =>
        /\ currentPiece = null => noFullRow(grid)
        /\ (currentPiece # null /\ moveDown(currentPiece, grid).ret) =>
             /\ currentPiece' = null
             /\ grid' = clearLines(moveDown(currentPiece, grid).grid)
        /\ ( /\ currentPiece # null
             /\ ~moveDown(currentPiece, grid).ret
             /\ moveDown(currentPiece, grid).threw = "" ) =>
             currentPiece' # null ]_vars

\* C2 as claimed: whenever moveDown reports 'locked', in a tick, a soft drop
\* or a hard drop, the slot is empty when the command returns.
C2_AsClaimed ==
  [][ ( /\ currentPiece # null
        /\ \/ (isTick(event') \/ isSoftDrop(event')) /\ moveDown(currentPiece, grid).ret
           \/ isHardDrop(event') /\ hardDrop(currentPiece, grid).ret ) =>
        currentPiece' = null ]_vars

\* The piece cannot move down and has a block at a row < 0.
toppedOut(piece, g) ==
  /\ ~fitsAt(piece, g, piece.position.x, piece.position.y + Num(1))
  /\ \E i \in 1 .. Len(piece.blocks) : piece.blocks[i].y + piece.position.y < Num(0)

\* C3 as claimed: a tick whose piece cannot move down with a block still at
\* a row < 0 stops the timer and leaves the grid with the contents it had
\* before the failed lock.  (Stated for the ticks before which only ticks
\* have locked pieces, so that it is refuted on its own and not by C2's
\* soft and hard drops.)
C3_AsClaimed ==
  [][ ( /\ isTick(event') /\ onlyTicksLocked
        /\ currentPiece # null /\ toppedOut(currentPiece, grid) ) =>
        (~gameTimer' /\ grid' = grid) ]_vars

\* C4: spawn() is called only when no piece is active, its assertion never
\* fails, and a key command received while no piece is active leaves the
\* grid and the session as they were.
C4_SpawnOnlyWhenEmpty ==
  [][ /\ event'.threw # "spawning while current piece is not null"
      /\ spawns' # spawns => currentPiece = null
      /\ (event'.name = "keydown" /\ currentPiece = null) =>
           UNCHANGED << grid, currentPiece, bag, gameTimer, spawns, locks >> ]_vars

\* C4's case: a piece has been spawned and has locked, and a key was
\* received while the slot was empty.
C4_Witness ==
  /\ event.name = "keydown" /\ event.code = "ArrowUp"
  /\ currentPiece = null
  /\ spawns >= 1 /\ locks >= 1

sqmag(d) == d.x * d.x + d.y * d.y

\* The offsets over dx, dy in [-3, 3].
KickOffsets ==
  { Point(Num(dx), Num(dy)) : dx \in -MAX_KICK .. MAX_KICK, dy \in -MAX_KICK .. MAX_KICK }

\* The kick table as claimed: the 49 offsets, each once, (0, 0) first, in
\* ascending squared magnitude.
KickTableAsClaimed ==
  /\ Len(KICK_DELTAS) = 49
  /\ { KICK_DELTAS[k] : k \in 1 .. Len(KICK_DELTAS) } = KickOffsets
  /\ KICK_DELTAS[1] = Point(Num(0), Num(0))
  /\ \A k \in 1 .. Len(KICK_DELTAS) - 1 : sqmag(KICK_DELTAS[k]) <= sqmag(KICK_DELTAS[k + 1])

\* The rotated piece fits when displaced by d from the position of piece.
fitsKicked(piece, g, ccw, d) ==
  fitsAt(rotate(piece, ccw), g, piece.position.x + d.x, piece.position.y + d.y)

\* C5: a successful kickRotate(ccw) leaves the blocks rotated exactly once
\* and displaces the position by the first offset of the table that fitsAt
\* accepts: no fitting offset of strictly smaller squared magnitude exists,
\* and a rotation that fits in place is not displaced.
C5_KickTakesFirstFit ==
  [][ (event'.name = "kickRotate" /\ event'.ret) =>
        LET ccw == event'.ccw
            d == Point(currentPiece'.position.x - currentPiece.position.x,
                       currentPiece'.position.y - currentPiece.position.y)
        IN  /\ KickTableAsClaimed
            /\ currentPiece'.blocks = rotate(currentPiece, ccw).blocks
            /\ currentPiece'.centroid = currentPiece.centroid
            /\ currentPiece'.index = currentPiece.index
            /\ \E k \in 1 .. Len(KICK_DELTAS) :
                 /\ KICK_DELTAS[k] = d
                 /\ fitsKicked(currentPiece, grid, ccw, d)
                 /\ \A j \in 1 .. k - 1 :
                      ~fitsKicked(currentPiece, grid, ccw, KICK_DELTAS[j])
            /\ \A e \in KickOffsets :
                 sqmag(e) < sqmag(d) => ~fitsKicked(currentPiece, grid, ccw, e)
            /\ fitsKicked(currentPiece, grid, ccw, POINT_ZERO) => d = POINT_ZERO
            /\ grid' = grid ]_vars

\* C5's case: a kickRotate that succeeded by displacing a piece that fitted
\* at its position, on a grid with settled cells.
C5_Witness ==
  /\ event.name = "kickRotate" /\ event.ret
  /\ run.name = "kickRotate" /\ run.n = 1
  /\ fitsAt(run.from, grid, run.from.position.x, run.from.position.y)
  /\ currentPiece.position # run.from.position
  /\ grid # EmptyGrid

\* C6: when no offset of the kick table fits, kickRotate(ccw) returns false
\* and leaves the four block offsets (in their order), the position and the
\* grid as they were.
C6_FailedKickChangesNothing ==
  [][ ( /\ event'.name = "kickRotate"
        /\ \A k \in 1 .. Len(KICK_DELTAS) :
             ~fitsKicked(currentPiece, grid, event'.ccw, KICK_DELTAS[k]) ) =>
        /\ event'.ret = FALSE
        /\ currentPiece' = currentPiece
        /\ grid' = grid ]_vars

\* C6's case: a kickRotate of a piece that fitted at its position found no
\* offset and returned false.
C6_Witness ==
  /\ event.name = "kickRotate" /\ ~event.ret
  /\ run.name = "kickRotate" /\ run.n = 1
  /\ fitsAt(run.from, grid, run.from.position.x, run.from.position.y)
  /\ \A k \in 1 .. Len(KICK_DELTAS) :
       ~fitsKicked(run.from, grid, run.ccw, KICK_DELTAS[k])

\* The cells of the grid that the blocks of piece take, as << column, row >>.
cellsOf(piece) ==
  { << Cell(piece.blocks[i].x + piece.position.x),
       Cell(piece.blocks[i].y + piece.position.y) >> : i \in 1 .. Len(piece.blocks) }

\* No settled cell is on a cell of the piece or beside one (the eight
\* neighbours).
noNeighbours(piece, g) ==
  \A c \in cellsOf(piece) :
    \A dx \in -1 .. 1, dy \in -1 .. 1 :
      LET x == c[1] + dx
          y == c[2] + dy
      IN  (x >= 0 /\ x < GRID_WIDTH /\ y >= 0 /\ y < GRID_HEIGHT) => g[y + 1][x + 1] = 0

\* C7 as claimed: kickRotate(ccw) followed immediately by kickRotate(!ccw)
\* on a piece with no neighbouring occupied cells restores the blocks and
\* the position.  (The piece is one in play: it fits at its position.)
C7_AsClaimed ==
  ( /\ run.name = "kickRotate" /\ run.n = 2
    /\ noNeighbours(run.from, grid)
    /\ fitsAt(run.from, grid, run.from.position.x, run.from.position.y) )
    => currentPiece = run.from

\* C7 as amended: the same, for a piece whose rotation also fits at the
\* piece's position (no wall, floor or settled cell where the rotation puts
\* the blocks).
C7_KickRoundTrip ==
  ( /\ run.name = "kickRotate" /\ run.n = 2
    /\ noNeighbours(run.from, grid)
    /\ fitsAt(run.from, grid, run.from.position.x, run.from.position.y)
    /\ fitsKicked(run.from, grid, run.ccw, POINT_ZERO) )
    => currentPiece = run.from

\* C7's case: the two calls were made on such a piece of the I kind, on a
\* grid that holds settled cells.
C7_Witness ==
  /\ run.name = "kickRotate" /\ run.n = 2
  /\ noNeighbours(run.from, grid)
  /\ fitsAt(run.from, grid, run.from.position.x, run.from.position.y)
  /\ fitsKicked(run.from, grid, run.ccw, POINT_ZERO)
  /\ currentPiece.index = 1
  /\ grid # EmptyGrid

\* C8 as claimed: rotate with ccw = false takes (x, y) to
\* (cx - (y - cy), cy + (x - cx)), with ccw = true to
\* (cx + (y - cy), cy - (x - cx)).
C8_RotateAsClaimed ==
  (run.name = "rotate" /\ run.n = 1) =>
    \A i \in 1 .. Len(run.from.blocks) :
      LET pt == run.from.blocks[i]
          c == run.from.centroid
      IN  currentPiece.blocks[i] =
            IF run.ccw
            THEN Point(c.x + (pt.y - c.y), c.y - (pt.x - c.x))
            ELSE Point(c.x - (pt.y - c.y), c.y + (pt.x - c.x))

\* C9: rotate applied four times in one direction returns every block, in
\* its place of the sequence, to its coordinates.
C9_FourRotations ==
  (run.name = "rotate" /\ run.n = 4) =>
    /\ currentPiece.blocks = run.from.blocks
    /\ currentPiece.centroid = run.from.centroid
    /\ currentPiece.position = run.from.position

\* C9's case: four rotations in a row of the I kind, whose centroid is
\* (0.5, 1.5), counter-clockwise.
C9_Witness ==
  /\ run.name = "rotate" /\ run.n = 4 /\ run.ccw
  /\ currentPiece.index = 1
  /\ event.name = "rotate"

\* fitsAt as claimed: every block's cell has its column in [0, width), its
\* row < height and, at a row >= 0, an empty grid cell.
fitsAsClaimed(piece, g, x, y) ==
  \A i \in 1 .. Len(piece.blocks) :
    LET col == piece.blocks[i].x + x
        row == piece.blocks[i].y + y
    IN  /\ Num(0) <= col /\ col < Num(GRID_WIDTH)
        /\ row < Num(GRID_HEIGHT)
        /\ row >= Num(0) => g[Cell(row) + 1][Cell(col) + 1] = 0

\* C10: fitsAt(x, y) is true exactly when every block passes fitsAsClaimed,
\* and the call changes neither the piece nor the grid.
C10_FitsAt ==
  [][ event'.name = "fitsAt" =>
        /\ event'.ret = fitsAsClaimed(currentPiece, grid, event'.at.x, event'.at.y)
        /\ currentPiece' = currentPiece
        /\ grid' = grid ]_vars

\* C10's case: fitsAt returned true for a piece with a block above row 0
\* and returned by a grid that holds settled cells.
C10_Witness ==
  /\ event.name = "fitsAt" /\ event.ret
  /\ \E i \in 1 .. Len(currentPiece.blocks) :
       currentPiece.blocks[i].y + event.at.y < Num(0)
  /\ \E i \in 1 .. Len(currentPiece.blocks) :
       currentPiece.blocks[i].y + event.at.y >= Num(0)
  /\ grid # EmptyGrid


\* The piece is one in play: it fits at its own position.
inPlay(piece, g) == fitsAt(piece, g, piece.position.x, piece.position.y)

\* Every absolute cell of the piece is a cell of the grid.
cellsInGrid(piece) ==
  \A c \in cellsOf(piece) :
    c[1] >= 0 /\ c[1] < GRID_WIDTH /\ c[2] >= 0 /\ c[2] < GRID_HEIGHT

\* C11 as claimed: moveDown on a piece in play, when the piece fits one row
\* lower, adds exactly 1 to position.y, leaves the grid and returns
\* not-locked; otherwise it leaves the position, writes the identity into
\* exactly the 4 absolute cells of the piece, each of them a cell that reads
\* the identity back and every other cell as before, and returns locked.
C11_AsClaimed ==
  [][ (event'.name = "moveDown" /\ inPlay(currentPiece, grid)) =>
        IF fitsAt(currentPiece, grid, currentPiece.position.x,
                  currentPiece.position.y + Num(1))
        THEN /\ currentPiece' =
                  [currentPiece EXCEPT !.position.y = @ + Num(1)]
             /\ grid' = grid
             /\ ~event'.ret /\ event'.threw = ""
        ELSE /\ currentPiece' = currentPiece
             /\ event'.ret /\ event'.threw = ""
             /\ cellsInGrid(currentPiece)
             /\ \A y \in 1 .. GRID_HEIGHT, x \in 1 .. GRID_WIDTH :
                  grid'[y][x] = IF << x - 1, y - 1 >> \in cellsOf(currentPiece)
                                THEN currentPiece.index ELSE grid[y][x] ]_vars

\* C12: moveHoriz(dx) for integer dx returns fitsAt(position.x + dx,
\* position.y); when true only position.x has changed, by exactly dx; when
\* false nothing has changed; position.y, the blocks and the grid are as
\* before in both cases.
C12_MoveHoriz ==
  [][ event'.name = "moveHoriz" =>
        LET dx == event'.at.x
            fits == fitsAt(currentPiece, grid, currentPiece.position.x + dx,
                           currentPiece.position.y)
        IN  /\ event'.ret = fits
            /\ event'.threw = ""
            /\ grid' = grid
            /\ currentPiece' =
                 IF fits THEN [currentPiece EXCEPT !.position.x = @ + dx]
                 ELSE currentPiece ]_vars

\* C12's case: a piece in play, beside settled cells, was asked to step
\* left and was refused because of a settled cell, not of the wall.
C12_Witness ==
  /\ event.name = "moveHoriz" /\ ~event.ret /\ event.at.x = Num(-1)
  /\ inPlay(currentPiece, grid)
  /\ \A i \in 1 .. Len(currentPiece.blocks) :
       currentPiece.blocks[i].x + currentPiece.position.x >= Num(1)

fullRows(g) == { y \in 1 .. Len(g) : rowFull(g[y]) }
fullBelow(g, y) == Cardinality({ z \in fullRows(g) : z > y })

notFull(row) == ~rowFull(row)

\* C13: clearLines deletes every row that was full before the call, keeps
\* the other rows in their order, each moved down by the number of full
\* rows that were below it, and puts as many empty rows on top as it
\* deleted: the grid has GRID_HEIGHT rows of GRID_WIDTH cells again.
C13_ClearLines ==
  [][ event'.name = "clearLines" =>
        LET n == Cardinality(fullRows(grid))
        IN  /\ Len(grid') = GRID_HEIGHT
            /\ \A y \in 1 .. GRID_HEIGHT : Len(grid'[y]) = GRID_WIDTH
            /\ \A y \in 1 .. n : grid'[y] = EmptyRow
            /\ \A y \in 1 .. Len(grid) :
                 y \notin fullRows(grid) => grid'[y + fullBelow(grid, y)] = grid[y]
            /\ grid' = [y \in 1 .. n |-> EmptyRow] \o SelectSeq(grid, notFull) ]_vars

\* C13's case: two rows or more were full and deleted, and two different
\* partly settled rows were kept.
C13_Witness ==
  /\ event.name = "clearLines" /\ run.n >= 2
  /\ \E y, z \in 1 .. GRID_HEIGHT :
       grid[y] # EmptyRow /\ grid[z] # EmptyRow /\ grid[y] # grid[z]

\* C14: from a fresh Bag, whatever the draws of the shuffles, the calls
\* 7k+1 .. 7k+7 of next() return each of the 7 identities exactly once (no
\* identity twice among the calls of one run, and all 7 when the run is
\* complete), and after every call the index is in [0, 7).
C14_BagDealsEachKindOnce ==
  /\ bag.index >= 0 /\ bag.index < Len(PIECES)
  /\ Len(returned) <= Len(PIECES)
  /\ \A i \in 1 .. Len(returned) : returned[i] \in 1 .. Len(PIECES)
  /\ \A i, j \in 1 .. Len(returned) : i # j => returned[i] # returned[j]
  /\ Len(returned) = Len(PIECES) =>
       { returned[i] : i \in 1 .. Len(returned) } = 1 .. Len(PIECES)
  /\ event.name = "next" => bag.index = Len(returned) % Len(PIECES)

\* C14's case: the 7 calls of a bag after the first are done; they came in
\* an order other than that of ascending identities.
C14_Witness ==
  /\ event.name = "next" /\ run.n = MaxBags
  /\ Len(returned) = Len(PIECES)
  /\ returned[1] > returned[2]

\* The largest block offsets of a piece, as whole numbers.
maxBlockX(piece) ==
  CHOOSE m \in { Cell(piece.blocks[i].x) : i \in 1 .. Len(piece.blocks) } :
    \A i \in 1 .. Len(piece.blocks) : Cell(piece.blocks[i].x) <= m
maxBlockY(piece) ==
  CHOOSE m \in { Cell(piece.blocks[i].y) : i \in 1 .. Len(piece.blocks) } :
    \A i \in 1 .. Len(piece.blocks) : Cell(piece.blocks[i].y) <= m

\* C15: spawn puts the new piece, of any of the 7 kinds, at column
\* floor((width - maxBlockX) / 2) and row -1 - maxBlockY; every block is
\* then at a row < 0, the lowest at row -1, and in a column of the grid,
\* and the piece fits there whatever the grid holds.  The O kind (identity
\* 4) gets column 4 on a grid 10 columns wide.
C15_SpawnPosition ==
  /\ spawnColumn(PIECES[4], 10) = 4
  /\ (event.name = "spawn" /\ event.threw = "") =>
       LET p == currentPiece
       IN  /\ p.position.x = Num((GRID_WIDTH - maxBlockX(p)) \div 2)
           /\ p.position.y = Num(-1 - maxBlockY(p))
           /\ \A c \in cellsOf(p) : c[2] < 0 /\ c[1] >= 0 /\ c[1] < GRID_WIDTH
           /\ \E c \in cellsOf(p) : c[2] = -1
           /\ fitsAt(p, grid, p.position.x, p.position.y)

\* C15's case: the O kind was spawned over a grid with every cell settled.
C15_Witness ==
  /\ event.name = "spawn" /\ event.threw = ""
  /\ currentPiece.index = 4
  /\ grid = FullGrid

\* C20: after any sequence of rotations (and kick rotations) in either
\* direction, of a piece of any of the 7 kinds, every block offset is an
\* integer.
C20_BlocksStayIntegers ==
  \A i \in 1 .. Len(currentPiece.blocks) :
    isInt(currentPiece.blocks[i].x) /\ isInt(currentPiece.blocks[i].y)

\* C20's case: the I kind, whose centroid is (0.5, 1.5), has been rotated
\* three times in a row.
C20_Witness ==
  /\ run.name = "rotate" /\ run.n = 3
  /\ currentPiece.index = 1
  /\ ~isInt(currentPiece.centroid.x) /\ ~isInt(currentPiece.centroid.y)

\* C17 as claimed: whenever a piece is active it fits at its own position.
C17_AsClaimed == currentPiece # null => inPlay(currentPiece, grid)

\* The piece is out of play, the game is over, or the model's count of
\* locks is used up.
lockedOrOver == currentPiece = null \/ ~gameTimer \/ locks >= MaxLocks

\* The event is a rotate command.
isRotateKey(e) == e.name = "keydown" /\ e.code \in { "KeyZ", "KeyX" }

\* C19 as claimed: with the timer ticking, an active piece is in the end
\* locked (the slot emptied) or the game is over, whatever keys come
\* between the ticks.  (Stated for the behaviours in which only ticks lock
\* pieces, so that it is refuted on its own and not by C2's soft and hard
\* drops.)
C19_AsClaimed == (currentPiece # null) ~> (lockedOrOver \/ ~onlyTicksLocked)

\* C19 as amended: with the timer ticking, an active piece is in the end
\* locked or the game is over, unless another rotate command comes:
\* whatever else is done, only rotate commands that keep coming postpone
\* the lock.
C19_LocksUnlessRotated ==
  (currentPiece # null /\ ~isRotateKey(event)) ~>
    (lockedOrOver \/ isRotateKey(event))

\* C19's case: the first piece, of a kind other than I, was turned upright
\* and moved to the left wall by the keys between the ticks, and a tick has
\* locked it there, three cells tall in column 0, and emptied the slot.
C19_Witness ==
  /\ isTick(event) /\ currentPiece = null
  /\ spawns = 1 /\ locks = 1
  /\ \A y \in GRID_HEIGHT - 2 .. GRID_HEIGHT : grid[y][1] \notin { 0, 1 }

\* The blocks and the centroid of the piece v are those its kind was given
\* when the catalog was built.
asInCatalog(v) ==
  /\ v.index \in 1 .. Len(PIECES)
  /\ v.blocks = PIECES[v.index].blocks
  /\ v.centroid = PIECES[v.index].centroid

\* C18: whatever was rotated or moved, every Piece of the catalog and every
\* entry of the bag has the block offsets and the centroid its kind had when
\* the catalog was built, and so has the piece spawn() has just made.
C18_CatalogNeverMutated ==
  /\ \A k \in 1 .. Len(PIECES) :
       /\ deref(heap, CatalogAt(k)).index = k
       /\ asInCatalog(deref(heap, CatalogAt(k)))
  /\ \A i \in 1 .. Len(heap.bag.bag) : asInCatalog(deref(heap, heap.bag.bag[i]))
  /\ event.name = "spawn" => asInCatalog(currentPiece)

\* C18's case: a piece has just been spawned from the second bag, and the
\* last rotation before it left an earlier piece of the same kind turned
\* away from the catalog's blocks.
C18_Witness ==
  /\ event.name = "spawn"
  /\ spawns > Len(PIECES)
  /\ run.name = "rotate"
  /\ run.n = currentPiece.index
  /\ run.from.blocks # PIECES[run.n].blocks
=============================================================================
